---- MODULE Spec2Model ----
(***************************************************************************)
(* The maintenance scripts under .github/scripts of radius-project/radius: *)
(*   get_release_version.py            (variables gitRef .. relExit)       *)
(*   validate_semver.py                (variables semArgv .. semExit)      *)
(*   transform_test_results.py         (variables trArgv .. trExit)        *)
(*   publish-test-terraform-recipes.py (variables pubArgv .. pubExit)      *)
(* Each script is a one-shot process; every script has its own             *)
(* specification (SpecRelease, SpecSemver, SpecAgree, SpecTransform,       *)
(* SpecPublish) over its own variables, the others staying idle.           *)
(*                                                                         *)
(* A string is a sequence of characters, a character a one-character TLA+  *)
(* string.  An optional value (Python's None or a value) is <<>> or <<v>>. *)
(***************************************************************************)
EXTENDS Integers, Sequences, FiniteSets, TLC

VARIABLES
  \* get_release_version.py
  gitRef,        \* os.getenv("GITHUB_REF"): None or Some(string)
  githubEnv,     \* the text of the file GITHUB_ENV names (a file that can be appended to)
  githubEnvOld,  \* that text as the script found it
  match,         \* the script's variable match, once a search has run
  relStdout,     \* which build the script announced on standard output
  relPc,         \* "start", "pull" (line 81), "tag" (line 99), "done"
  relExit,       \* "running", then how the process ended
  \* validate_semver.py
  semArgv,       \* sys.argv[1:]
  semMatch,      \* main's variable match
  semPc,         \* "start", "searched" (line 37), "done"
  semExit,       \* "running", then how the process ended
  \* transform_test_results.py
  trArgv,        \* sys.argv[1:]
  trInput,       \* the input file: [kind, doc]
  trWritable,    \* whether the output file can be opened for writing
  trOutput,      \* the output file: None (no such file) or Some(content)
  trOutputOld,   \* the output file as the script found it
  et,            \* main's variable et: None, or Some(tree) once parsed
  trI,           \* the loop at line 60 is at the trI-th testcase it found
  trMatch,       \* main's variable match
  trStdout,      \* what main has printed, message by message
  trPc,          \* "start", "loop" (line 60), "matched" (line 68), "write" (line 88), "done"
  trExit,        \* "running", then how the process ended
  \* publish-test-terraform-recipes.py
  pubArgv,       \* sys.argv[1:]
  step_summary,  \* whether GITHUB_STEP_SUMMARY is set
  output,        \* what log() has written to the step summary file
  pubRoot,       \* the recipe root's entries: name -> "dir", "file" or "absent"
  recipe_dirs,   \* the script's list recipe_dirs
  config_entries, \* the script's dict config_entries, in insertion order
  tmp_dir,       \* the archives in the temporary directory
  pubI,          \* the loop at line 59 is at the pubI-th of recipe_dirs
  pubCommands,   \* the kubectl commands run so far, each with its return code
  configMap,     \* the cluster's config map: None or Some(its entries)
  configMapOld,  \* the config map as the script found it
  pubPc,         \* "start", "archive" (line 59), "create" (line 75), "done"
  pubExit        \* "running", then how the process ended

relVars == <<gitRef, githubEnv, githubEnvOld, match, relStdout, relPc, relExit>>
semVars == <<semArgv, semMatch, semPc, semExit>>
trVars == <<trArgv, trInput, trWritable, trOutput, trOutputOld, et, trI, trMatch, trStdout,
            trPc, trExit>>
pubVars == <<pubArgv, step_summary, output, pubRoot, recipe_dirs, config_entries, tmp_dir,
             pubI, pubCommands, configMap, configMapOld, pubPc, pubExit>>
notRelVars == <<semVars, trVars, pubVars>>
notSemVars == <<relVars, trVars, pubVars>>
notTrVars == <<relVars, semVars, pubVars>>
notPubVars == <<relVars, semVars, trVars>>
vars == <<relVars, semVars, trVars, pubVars>>

None == <<>>
Some(x) == <<x>>

(***************************************************************************)
(* Characters.                                                             *)
(***************************************************************************)
AsciiDigits == {"0", "1", "2", "3", "4", "5", "6", "7", "8", "9"}

NonZeroDigits == AsciiDigits \ {"0"}

\* One decimal digit outside ASCII (ARABIC-INDIC DIGIT THREE): \d of a str
\* pattern matches every Unicode decimal digit, [0-9] only the ASCII ones.
ArabicIndicThree == "U+0663"

UnicodeDigits == AsciiDigits \cup {ArabicIndicThree}

AsciiLetters ==
  {"a", "b", "c", "d", "e", "f", "g", "h", "i", "j", "k", "l", "m", "n", "o", "p", "q",
   "r", "s", "t", "u", "v", "w", "x", "y", "z",
   "A", "B", "C", "D", "E", "F", "G", "H", "I", "J", "K", "L", "M", "N", "O", "P", "Q",
   "R", "S", "T", "U", "V", "W", "X", "Y", "Z"}

(***************************************************************************)
(* Regular expressions as Python's re module runs them: a backtracking     *)
(* matcher that tries alternatives left to right and repetitions greedily, *)
(* and returns the first match found with its groups.                      *)
(***************************************************************************)
Lit(s) == [op |-> "lit", s |-> s]
CharSet(cs) == [op |-> "set", cs |-> cs]
Dot == [op |-> "dot"]
Digit == CharSet(UnicodeDigits)
Bol == [op |-> "bol"]
Eol == [op |-> "eol"]
Cat(rs) == [op |-> "cat", rs |-> rs]
Alt(rs) == [op |-> "alt", rs |-> rs]
Star(r) == [op |-> "star", r |-> r]
Plus(r) == Cat(<<r, Star(r)>>)
Opt(r) == Alt(<<r, Cat(<<>>)>>)
Group(name, r) == [op |-> "grp", name |-> name, r |-> r]

GroupNames == {"1", "2", "version", "major", "minor", "patch", "prerelease", "buildmetadata"}

NoGroups == [g \in GroupNames |-> None]

\* re's "$" without MULTILINE: the end of the string, or just before a
\* newline that ends the string.
AtEol(s, i) == i = Len(s) + 1 \/ (i = Len(s) /\ s[i] = "\n")

\* The first way (in backtracking order) to match the regexes todo one after
\* the other in s from position i on: Some([pos, groups]) or None.
RECURSIVE MatchFrom(_, _, _, _)
MatchFrom(todo, s, i, groups) ==
  IF todo = <<>> THEN Some([pos |-> i, groups |-> groups])
  ELSE
    LET r    == Head(todo)
        rest == Tail(todo)
    IN
      CASE r.op = "lit" ->
             IF i + Len(r.s) - 1 <= Len(s) /\ SubSeq(s, i, i + Len(r.s) - 1) = r.s
             THEN MatchFrom(rest, s, i + Len(r.s), groups)
             ELSE None
        [] r.op = "set" ->
             IF i <= Len(s) /\ s[i] \in r.cs
             THEN MatchFrom(rest, s, i + 1, groups)
             ELSE None
        [] r.op = "dot" ->
             IF i <= Len(s) /\ s[i] # "\n"
             THEN MatchFrom(rest, s, i + 1, groups)
             ELSE None
        [] r.op = "bol" -> IF i = 1 THEN MatchFrom(rest, s, i, groups) ELSE None
        [] r.op = "eol" -> IF AtEol(s, i) THEN MatchFrom(rest, s, i, groups) ELSE None
        [] r.op = "cat" -> MatchFrom(r.rs \o rest, s, i, groups)
        [] r.op = "alt" ->
             IF r.rs = <<>> THEN None
             ELSE
               LET first == MatchFrom(<<Head(r.rs)>> \o rest, s, i, groups)
               IN  IF first # None THEN first
                   ELSE MatchFrom(<<Alt(Tail(r.rs))>> \o rest, s, i, groups)
        [] r.op = "star" ->
             LET more == MatchFrom(<<r.r, [op |-> "moved", from |-> i], r>> \o rest,
                                   s, i, groups)
             IN  IF more # None THEN more ELSE MatchFrom(rest, s, i, groups)
        [] r.op = "moved" -> IF i > r.from THEN MatchFrom(rest, s, i, groups) ELSE None
        [] r.op = "grp" ->
             MatchFrom(<<r.r, [op |-> "end", name |-> r.name, from |-> i]>> \o rest,
                       s, i, groups)
        [] r.op = "end" ->
             MatchFrom(rest, s, i,
                       [groups EXCEPT ![r.name] = Some(SubSeq(s, r.from, i - 1))])

\* re.search from start position k on: the leftmost match.
RECURSIVE SearchFrom(_, _, _)
SearchFrom(r, s, k) ==
  IF k > Len(s) + 1 THEN None
  ELSE LET m == MatchFrom(<<r>>, s, k, NoGroups)
       IN  IF m # None THEN Some(m[1].groups) ELSE SearchFrom(r, s, k + 1)

\* re.search(r, s): None, or Some(groups) with groups[name] = None or Some(text).
Search(r, s) == SearchFrom(r, s, 1)

\* "{}".format(g) for a group value g.
Format(g) == IF g = None THEN <<"N", "o", "n", "e">> ELSE g[1]

(***************************************************************************)
(* The semver.org pattern's pieces, as both scripts spell them.            *)
(***************************************************************************)
\* 0|[1-9]\d*
NumericIdentifier == Alt(<<Lit(<<"0">>), Cat(<<CharSet(NonZeroDigits), Star(Digit)>>)>>)

\* (?:0|[1-9]\d*|\d*[a-zA-Z-][0-9a-zA-Z-]*)
PrereleaseIdentifier ==
  Alt(<<Lit(<<"0">>),
        Cat(<<CharSet(NonZeroDigits), Star(Digit)>>),
        Cat(<<Star(Digit), CharSet(AsciiLetters \cup {"-"}),
              Star(CharSet(AsciiDigits \cup AsciiLetters \cup {"-"}))>>)>>)

\* [0-9a-zA-Z-]+
BuildIdentifier == Plus(CharSet(AsciiDigits \cup AsciiLetters \cup {"-"}))

\* (?:-(?P<prerelease>..(?:\...)*))?(?:\+(?P<buildmetadata>..(?:\...)*))?
PrereleaseAndBuild ==
  Cat(<<Opt(Cat(<<Lit(<<"-">>),
                  Group("prerelease",
                        Cat(<<PrereleaseIdentifier,
                              Star(Cat(<<Lit(<<".">>), PrereleaseIdentifier>>))>>))>>)),
        Opt(Cat(<<Lit(<<"+">>),
                  Group("buildmetadata",
                        Cat(<<BuildIdentifier,
                              Star(Cat(<<Lit(<<".">>), BuildIdentifier>>))>>))>>))>>)

\* (?P<major>..)\.(?P<minor>..)\.(?P<patch>..) and what may follow
MajorMinorPatch ==
  Cat(<<Group("major", NumericIdentifier), Lit(<<".">>),
        Group("minor", NumericIdentifier), Lit(<<".">>),
        Group("patch", NumericIdentifier), PrereleaseAndBuild>>)

RefsTagsV == <<"r", "e", "f", "s", "/", "t", "a", "g", "s", "/", "v">>
RefsPull == <<"r", "e", "f", "s", "/", "p", "u", "l", "l", "/">>
RefsHeads == <<"r", "e", "f", "s", "/", "h", "e", "a", "d", "s", "/">>

\* ^refs/tags/v(?P<version>0|(?P<major>..)\.(?P<minor>..)\.(?P<patch>..)..)$
tagRefRegex ==
  Cat(<<Bol, Lit(RefsTagsV),
        Group("version", Alt(<<Lit(<<"0">>), MajorMinorPatch>>)), Eol>>)

\* ^refs/pull/(.*)/(.*)$
pullRefRegex ==
  Cat(<<Bol, Lit(RefsPull), Group("1", Star(Dot)), Lit(<<"/">>), Group("2", Star(Dot)), Eol>>)

\* ^(?P<major>..)\.(?P<minor>..)\.(?P<patch>..)..$
SEMVER_REGEX == Cat(<<Bol, MajorMinorPatch, Eol>>)


(***************************************************************************)
(* Inputs.  A string is a prefix, a stem and a tail: the tails are all the *)
(* strings over RefAlphabet up to MaxTail characters, the stems carry      *)
(* them to where a version's later parts begin.                            *)
(***************************************************************************)
MaxTail == 2

RefAlphabet == {"0", "1", ArabicIndicThree, ".", "-", "+", "a", "\n", "/"}

Tails == UNION {[1..n -> RefAlphabet] : n \in 0..MaxTail}

Stems == {<<>>, <<"1", ".", "0", ".", "2">>, <<"1", ".", "0", ".", "2", "-", "a">>}

Versions == {st \o t : st \in Stems, t \in Tails}

Prefixes == {<<>>, RefsTagsV, RefsPull, RefsHeads}

GitRefs == {None} \cup {Some(p \o v) : p \in Prefixes, v \in Versions}

\* What GITHUB_ENV holds before the script runs: nothing, or an earlier step's line.
OldEnvTexts == {<<>>, <<"R", "E", "L", "_", "V", "E", "R", "S", "I", "O", "N", "=", "o", "l", "d", "\n">>}

(***************************************************************************)
(* get_release_version.py                                                  *)
(***************************************************************************)
RelVersionKey == <<"R", "E", "L", "_", "V", "E", "R", "S", "I", "O", "N", "=">>
ChartVersionKey == <<"C", "H", "A", "R", "T", "_", "V", "E", "R", "S", "I", "O", "N", "=">>
RelChannelKey == <<"R", "E", "L", "_", "C", "H", "A", "N", "N", "E", "L", "=">>
UpdateReleaseLine ==
  <<"U", "P", "D", "A", "T", "E", "_", "R", "E", "L", "E", "A", "S", "E", "=", "t", "r", "u", "e">>
Edge == <<"e", "d", "g", "e">>
DevChart == <<"0", ".", "4", "2", ".", "4", "2", "-", "d", "e", "v">>
PrChartPrefix == <<"0", ".", "4", "2", ".", "4", "2", "-", "p", "r", "-">>
PrVersionPrefix == <<"p", "r", "-">>

\* githubEnv.write(line + "\n") for each of lines, in order
RECURSIVE WriteLines(_, _)
WriteLines(text, lines) ==
  IF lines = <<>> THEN text
  ELSE WriteLines(text \o Head(lines) \o <<"\n">>, Tail(lines))

IdleRelease ==
  /\ gitRef = None
  /\ githubEnv = <<>>
  /\ githubEnvOld = <<>>
  /\ match = None
  /\ relStdout = "nothing"
  /\ relPc = "done"
  /\ relExit = "exit 0"

IdleSemver ==
  /\ semArgv = <<>>
  /\ semMatch = None
  /\ semPc = "done"
  /\ semExit = "exit 1"

IdleTransform ==
  /\ trArgv = <<>>
  /\ trInput = [kind |-> "missing"]
  /\ trWritable = FALSE
  /\ trOutput = None
  /\ trOutputOld = None
  /\ et = None
  /\ trI = 1
  /\ trMatch = None
  /\ trStdout = <<>>
  /\ trPc = "done"
  /\ trExit = "exit 1"

IdlePublish ==
  /\ pubArgv = <<>>
  /\ step_summary = FALSE
  /\ output = <<>>
  /\ pubRoot = <<>>
  /\ recipe_dirs = <<>>
  /\ config_entries = <<>>
  /\ tmp_dir = {}
  /\ pubI = 1
  /\ pubCommands = <<>>
  /\ configMap = None
  /\ configMapOld = None
  /\ pubPc = "done"
  /\ pubExit = "exit 1"

StartRelease(ref, old) ==
  /\ gitRef = ref
  /\ githubEnv = old
  /\ githubEnvOld = old
  /\ match = None
  /\ relStdout = "nothing"
  /\ relPc = "start"
  /\ relExit = "running"

InitRelease ==
  /\ \E ref \in GitRefs, old \in OldEnvTexts : StartRelease(ref, old)
  /\ IdleSemver
  /\ IdleTransform
  /\ IdlePublish

\* lines 63-78: GITHUB_REF is not set
LocalBuild ==
  /\ relPc = "start"
  /\ gitRef = None
  /\ relStdout' = "not running in github"
  /\ githubEnv' = WriteLines(githubEnv,
       <<RelVersionKey \o Edge, ChartVersionKey \o DevChart, RelChannelKey \o Edge>>)
  /\ relExit' = "exit 0"
  /\ relPc' = "done"
  /\ UNCHANGED <<gitRef, githubEnvOld, match, notRelVars>>

\* line 63 not taken: the script comes to line 80
AtSearchPull == relPc = "start" /\ gitRef # None

\* line 80
SearchPull ==
  /\ AtSearchPull
  /\ match' = Search(pullRefRegex, gitRef[1])
  /\ relPc' = "pull"
  /\ UNCHANGED <<gitRef, githubEnv, githubEnvOld, relStdout, relExit, notRelVars>>

\* PullRequestBuild with the chart version taken from the second group
PullRequestBuildSecondGroup ==
  /\ relPc = "pull"
  /\ match # None
  /\ relStdout' = "pull request"
  /\ githubEnv' = WriteLines(githubEnv,
       <<RelVersionKey \o PrVersionPrefix \o Format(match[1]["1"]),
         ChartVersionKey \o PrChartPrefix \o Format(match[1]["2"]),
         RelChannelKey \o Edge>>)
  /\ relExit' = "exit 0"
  /\ relPc' = "done"
  /\ UNCHANGED <<gitRef, githubEnvOld, match, notRelVars>>

\* lines 81-96
PullRequestBuild ==
  /\ relPc = "pull"
  /\ match # None
  /\ relStdout' = "pull request"
  /\ githubEnv' = WriteLines(githubEnv,
       <<RelVersionKey \o PrVersionPrefix \o Format(match[1]["1"]),
         ChartVersionKey \o PrChartPrefix \o Format(match[1]["1"]),
         RelChannelKey \o Edge>>)
  /\ relExit' = "exit 0"
  /\ relPc' = "done"
  /\ UNCHANGED <<gitRef, githubEnvOld, match, notRelVars>>

\* line 81 not taken: the script comes to line 98
AtSearchTag == relPc = "pull" /\ match = None

\* line 98
SearchTag ==
  /\ AtSearchTag
  /\ match' = Search(tagRefRegex, gitRef[1])
  /\ relPc' = "tag"
  /\ UNCHANGED <<gitRef, githubEnv, githubEnvOld, relStdout, relExit, notRelVars>>

\* lines 99-119
FullRelease ==
  /\ relPc = "tag"
  /\ match # None
  /\ match[1]["prerelease"] = None
  /\ relStdout' = "full release"
  /\ githubEnv' = WriteLines(githubEnv,
       <<RelVersionKey \o Format(match[1]["version"]),
         ChartVersionKey \o Format(match[1]["version"]),
         RelChannelKey \o Format(match[1]["major"]) \o <<".">> \o Format(match[1]["minor"]),
         UpdateReleaseLine>>)
  /\ relExit' = "exit 0"
  /\ relPc' = "done"
  /\ UNCHANGED <<gitRef, githubEnvOld, match, notRelVars>>

\* Prerelease with the full release's UPDATE_RELEASE line copied along
PrereleaseMarksUpdate ==
  /\ relPc = "tag"
  /\ match # None
  /\ match[1]["prerelease"] # None
  /\ relStdout' = "prerelease"
  /\ githubEnv' = WriteLines(githubEnv,
       <<RelVersionKey \o Format(match[1]["version"]),
         ChartVersionKey \o Format(match[1]["version"]),
         RelChannelKey \o Format(match[1]["version"]),
         UpdateReleaseLine>>)
  /\ relExit' = "exit 0"
  /\ relPc' = "done"
  /\ UNCHANGED <<gitRef, githubEnvOld, match, notRelVars>>

\* lines 99-100, 121-135
Prerelease ==
  /\ relPc = "tag"
  /\ match # None
  /\ match[1]["prerelease"] # None
  /\ relStdout' = "prerelease"
  /\ githubEnv' = WriteLines(githubEnv,
       <<RelVersionKey \o Format(match[1]["version"]),
         ChartVersionKey \o Format(match[1]["version"]),
         RelChannelKey \o Format(match[1]["version"])>>)
  /\ relExit' = "exit 0"
  /\ relPc' = "done"
  /\ UNCHANGED <<gitRef, githubEnvOld, match, notRelVars>>

\* lines 137-148: no pattern matched; the script runs off its end
NormalBuild ==
  /\ relPc = "tag"
  /\ match = None
  /\ relStdout' = "normal build"
  /\ githubEnv' = WriteLines(githubEnv,
       <<RelVersionKey \o Edge, ChartVersionKey \o DevChart, RelChannelKey \o Edge>>)
  /\ relExit' = "exit 0"
  /\ relPc' = "done"
  /\ UNCHANGED <<gitRef, githubEnvOld, match, notRelVars>>

NextRelease ==
  \/ LocalBuild
  \/ SearchPull
  \/ PullRequestBuild
  \/ SearchTag
  \/ FullRelease
  \/ Prerelease
  \/ NormalBuild

SpecRelease == InitRelease /\ [][NextRelease]_vars

(***************************************************************************)
(* validate_semver.py                                                      *)
(***************************************************************************)
\* The command lines: no argument, one version, a version and one more argument.
SemverArgvs == {<<>>} \cup {<<v>> : v \in Versions} \cup {<<v, <<"x">>>> : v \in Versions}

StartSemver(argv) ==
  /\ semArgv = argv
  /\ semMatch = None
  /\ semPc = "start"
  /\ semExit = "running"

InitSemver ==
  /\ \E argv \in SemverArgvs : StartSemver(argv)
  /\ IdleRelease
  /\ IdleTransform
  /\ IdlePublish

\* lines 24-26: len(sys.argv) != 2
SemverUsage ==
  /\ semPc = "start"
  /\ Len(semArgv) + 1 # 2
  /\ semExit' = "exit 1"
  /\ semPc' = "done"
  /\ UNCHANGED <<semArgv, semMatch, notSemVars>>

\* lines 28-34
SemverSearch ==
  /\ semPc = "start"
  /\ Len(semArgv) + 1 = 2
  /\ semMatch' = Search(SEMVER_REGEX, semArgv[1])
  /\ semPc' = "searched"
  /\ UNCHANGED <<semArgv, semExit, notSemVars>>

\* lines 37-39
SemverInvalid ==
  /\ semPc = "searched"
  /\ semMatch = None
  /\ semExit' = "exit 1"
  /\ semPc' = "done"
  /\ UNCHANGED <<semArgv, semMatch, notSemVars>>

\* lines 40-42
SemverValid ==
  /\ semPc = "searched"
  /\ semMatch # None
  /\ semExit' = "exit 0"
  /\ semPc' = "done"
  /\ UNCHANGED <<semArgv, semMatch, notSemVars>>

NextSemver ==
  \/ SemverUsage
  \/ SemverSearch
  \/ SemverInvalid
  \/ SemverValid

SpecSemver == InitSemver /\ [][NextSemver]_vars

(***************************************************************************)
(* Both scripts on one version s: get_release_version.py with              *)
(* GITHUB_REF = "refs/tags/v" + s and validate_semver.py with argument s.  *)
(***************************************************************************)
InitAgree ==
  \E s \in Versions, old \in OldEnvTexts :
    /\ StartRelease(Some(RefsTagsV \o s), old)
    /\ StartSemver(<<s>>)
    /\ IdleTransform
    /\ IdlePublish

NextAgree ==
  \/ SearchPull
  \/ SearchTag
  \/ FullRelease
  \/ Prerelease
  \/ NormalBuild
  \/ SemverSearch
  \/ SemverInvalid
  \/ SemverValid

SpecAgree == InitAgree /\ [][NextAgree]_vars

(***************************************************************************)
(* What the claims speak of: the lines a script appended, and the shapes   *)
(* of a ref, stated on the string itself.                                  *)
(***************************************************************************)
HasPrefix(s, p) == Len(p) <= Len(s) /\ SubSeq(s, 1, Len(p)) = p

DropPrefix(s, p) == SubSeq(s, Len(p) + 1, Len(s))

\* The lines of a text, each without the newline that ends it.
RECURSIVE SplitLines(_)
SplitLines(text) ==
  IF text = <<>> THEN <<>>
  ELSE IF \E k \in 1..Len(text) : text[k] = "\n"
       THEN LET k == CHOOSE k \in 1..Len(text) :
                       text[k] = "\n" /\ \A j \in 1..(k - 1) : text[j] # "\n"
            IN  <<SubSeq(text, 1, k - 1)>> \o SplitLines(SubSeq(text, k + 1, Len(text)))
       ELSE <<text>>

AppendedLines == SplitLines(DropPrefix(githubEnv, githubEnvOld))

LinesWith(key) == {k \in 1..Len(AppendedLines) : HasPrefix(AppendedLines[k], key)}

\* A ref without the one newline that may end it.
Chomp(s) == IF s # <<>> /\ s[Len(s)] = "\n" THEN SubSeq(s, 1, Len(s) - 1) ELSE s

\* refs/pull/<n>/<rest> on one line
IsPullRef(ref) ==
  /\ HasPrefix(ref, RefsPull)
  /\ \A k \in 1..Len(Chomp(ref)) : ref[k] # "\n"
  /\ \E k \in (Len(RefsPull) + 1)..Len(Chomp(ref)) : ref[k] = "/"

IsTagRef(ref) == ~IsPullRef(ref) /\ Search(tagRefRegex, ref) # None

\* The version a tag ref carries: what follows refs/tags/v on its line.
TaggedVersion(ref) == DropPrefix(Chomp(ref), RefsTagsV)

\* A version has a prerelease part when a "-" comes before any "+".
HasPrereleasePart(v) ==
  \E k \in 1..Len(v) : v[k] = "-" /\ \A j \in 1..(k - 1) : v[j] # "+"

IsNumber(s) == s # <<>> /\ \A k \in 1..Len(s) : s[k] \in UnicodeDigits

EdgeLines == <<RelVersionKey \o Edge, ChartVersionKey \o DevChart, RelChannelKey \o Edge>>

PullLines(n) ==
  <<RelVersionKey \o PrVersionPrefix \o n, ChartVersionKey \o PrChartPrefix \o n,
    RelChannelKey \o Edge>>

\* How many of the script's steps can be taken (a search can whenever the
\* script has come to it).
EnabledReleaseSteps ==
    (IF ENABLED LocalBuild THEN 1 ELSE 0) + (IF AtSearchPull THEN 1 ELSE 0)
  + (IF ENABLED PullRequestBuild THEN 1 ELSE 0) + (IF AtSearchTag THEN 1 ELSE 0)
  + (IF ENABLED FullRelease THEN 1 ELSE 0) + (IF ENABLED Prerelease THEN 1 ELSE 0)
  + (IF ENABLED NormalBuild THEN 1 ELSE 0)

\* C1: for every GITHUB_REF, unset included, the script has exactly one way
\* on until it has ended, and it ends with status 0 having announced the build
\* that the precedence unset, pull-request ref, tag ref, fallback gives, and
\* having appended one REL_VERSION line, one CHART_VERSION line and one
\* REL_CHANNEL line, in that order: the edge lines when the ref is unset or
\* falls through, the pr-<n> lines for refs/pull/<n>/<rest>.
C1_TotalWithFixedPrecedence ==
  /\ relPc # "done" => EnabledReleaseSteps = 1
  /\ relPc # "done" => githubEnv = githubEnvOld
  /\ relPc = "done" =>
       /\ relExit = "exit 0"
       /\ HasPrefix(githubEnv, githubEnvOld)
       /\ Len(AppendedLines) >= 3
       /\ LinesWith(RelVersionKey) = {1}
       /\ LinesWith(ChartVersionKey) = {2}
       /\ LinesWith(RelChannelKey) = {3}
       /\ IF gitRef = None
          THEN relStdout = "not running in github" /\ AppendedLines = EdgeLines
          ELSE IF IsPullRef(gitRef[1])
          THEN /\ relStdout = "pull request"
               /\ \E k \in (Len(RefsPull) + 1)..Len(Chomp(gitRef[1])) :
                    /\ gitRef[1][k] = "/"
                    /\ AppendedLines = PullLines(SubSeq(gitRef[1], Len(RefsPull) + 1, k - 1))
          ELSE IF IsTagRef(gitRef[1])
          THEN relStdout \in {"full release", "prerelease"}
          ELSE relStdout = "normal build" /\ AppendedLines = EdgeLines

\* C1: a pull-request ref whose number part itself holds a "/" has been handled.
C1_Witness ==
  /\ relPc = "done"
  /\ relStdout = "pull request"
  /\ gitRef = Some(RefsPull \o <<"1", ".", "0", ".", "2", "/", "a">>)

\* C2: after a full release, the REL_CHANNEL line is <major>.<minor>, the
\* first two numeric components of the tagged version.
C2_ChannelIsMajorMinor ==
  (relPc = "done" /\ relStdout = "full release") =>
    LET v == TaggedVersion(gitRef[1])
    IN  \E i, j \in 1..Len(v) :
          /\ i < j
          /\ v[i] = "." /\ v[j] = "."
          /\ IsNumber(SubSeq(v, 1, i - 1))
          /\ IsNumber(SubSeq(v, i + 1, j - 1))
          /\ AppendedLines[3] = RelChannelKey \o SubSeq(v, 1, j - 1)

\* C3: after a full release, the CHART_VERSION line is <major>.<minor>.<patch>
\* of the tagged version: three numeric components and nothing else.
C3_ChartIsMajorMinorPatch ==
  (relPc = "done" /\ relStdout = "full release") =>
    LET v == TaggedVersion(gitRef[1])
    IN  \E i, j, k \in 1..Len(v) :
          /\ i < j /\ j < k
          /\ v[i] = "." /\ v[j] = "."
          /\ IsNumber(SubSeq(v, 1, i - 1))
          /\ IsNumber(SubSeq(v, i + 1, j - 1))
          /\ IsNumber(SubSeq(v, j + 1, k))
          /\ (k = Len(v) \/ v[k + 1] \notin UnicodeDigits)
          /\ AppendedLines[2] = ChartVersionKey \o SubSeq(v, 1, k)

\* C4: UPDATE_RELEASE=true is appended exactly when the ref is a tag ref that
\* matches the tag pattern and has no prerelease part; no such line is
\* appended for an unset ref, a pull-request ref, a prerelease tag or any
\* other ref, nor before the script has ended.
C4_UpdateReleaseIffFullRelease ==
  LET updates == \E k \in 1..Len(AppendedLines) : AppendedLines[k] = UpdateReleaseLine
  IN  /\ relPc # "done" => ~updates
      /\ relPc = "done" =>
           (updates <=> /\ gitRef # None
                        /\ IsTagRef(gitRef[1])
                        /\ ~HasPrereleasePart(TaggedVersion(gitRef[1])))

\* C4: a full release with build metadata that holds a "-" has been written.
C4_Witness ==
  /\ relPc = "done"
  /\ gitRef = Some(RefsTagsV \o <<"1", ".", "0", ".", "2", "+", "-">>)
  /\ AppendedLines[4] = UpdateReleaseLine

\* The semantic-versioning grammar on the whole argument: the pattern, and no
\* character the grammar does not know.
IsSemVer(s) ==
  /\ \A k \in 1..Len(s) : s[k] \in AsciiDigits \cup AsciiLetters \cup {".", "-", "+"}
  /\ Search(SEMVER_REGEX, s) # None

\* C5: validate_semver exits with status 0 if and only if it has exactly one
\* argument and the whole argument is of the semantic-versioning grammar, and
\* with status 1 otherwise.
C5_ExitStatusSignalsValidity ==
  semPc = "done" =>
    /\ semExit \in {"exit 0", "exit 1"}
    /\ semExit = "exit 0" <=> (Len(semArgv) = 1 /\ IsSemVer(semArgv[1]))

\* C9: for every s, get_release_version takes refs/tags/v + s for a tagged
\* build (release or prerelease) if and only if validate_semver exits with
\* status 0 on s.
C9_ScriptsAgreeOnVersions ==
  (relPc = "done" /\ semPc = "done") =>
    (relStdout \in {"full release", "prerelease"} <=> semExit = "exit 0")

(***************************************************************************)
(* transform_test_results.py                                               *)
(*                                                                         *)
(* A tree is [path, cases]: the testcase elements of the document and      *)
(* where they sit under the root element.  A testcase is                   *)
(* [file, line, failure], its "file" and "line" attributes (None when the  *)
(* element has none) and its first failure child: None, or                 *)
(* Some([text, file, line]).                                               *)
(***************************************************************************)
MaxCases == 2

ErrorTrace == <<"\t", "E", "r", "r", "o", "r", " ", "T", "r", "a", "c", "e", ":", "\t">>

\* \tError Trace:\t(.*):(\d+)
pattern == Cat(<<Lit(ErrorTrace), Group("1", Star(Dot)), Lit(<<":">>), Group("2", Plus(Digit))>>)

\* str.startswith
StartsWith(s, p) == Len(p) <= Len(s) /\ SubSeq(s, 1, Len(p)) = p

\* s[n:]
SliceFrom(s, n) == SubSeq(s, n + 1, Len(s))

RepositoryRoots == {<<"/", "r">>, <<"/", "r", "/">>, <<"/", "x", "/", "y">>}

TracedFiles == {<<"/", "r", "/", "a">>, <<"/", "r", "a">>, <<"/", "r">>, <<"/", "x", "/", "a">>}

\* The text of a failure element: none, no trace, or a trace naming a file and
\* a line, alone or with a column after it, after an earlier line of output.
FailureTexts ==
  {None, Some(<<"p", "a", "n", "i", "c">>)}
    \cup {Some(ErrorTrace \o f \o <<":", "1", "2">>) : f \in TracedFiles}
    \cup {Some(<<"a", "\n">> \o ErrorTrace \o <<"/", "r", "/", "a", ":", "1", ":", "7", "\n">>)}

TestCases ==
  {[file |-> None, line |-> None, failure |-> None]}
    \cup {[file |-> None, line |-> None,
           failure |-> Some([text |-> t, file |-> None, line |-> None])] : t \in FailureTexts}

Trees ==
  {[path |-> p, cases |-> cs] :
     p \in {"./testsuite/testcase", "./testcase"},
     cs \in UNION {[1..n -> TestCases] : n \in 0..MaxCases}}

InputFiles ==
  {[kind |-> k] : k \in {"missing", "empty", "malformed", "unreadable"}}
    \cup {[kind |-> "xml", doc |-> d] : d \in Trees}

\* An earlier run's report, which no tree parsed in this run equals.
OldReport == [path |-> "earlier report", cases |-> <<>>]

OldOutputs == {None, Some(OldReport)}

TransformArgvs ==
  {<<>>} \cup {<<root, "input file", "output file">> : root \in RepositoryRoots}

repository_root == trArgv[1]

InitTransform ==
  /\ trArgv \in TransformArgvs
  /\ trInput \in InputFiles
  /\ trWritable \in BOOLEAN
  /\ trOutputOld \in OldOutputs
  /\ trOutput = trOutputOld
  /\ et = None
  /\ trI = 1
  /\ trMatch = None
  /\ trStdout = <<>>
  /\ trPc = "start"
  /\ trExit = "running"
  /\ IdleRelease
  /\ IdleSemver
  /\ IdlePublish

\* et.findall('./testsuite/testcase')
Found == IF et[1].path = "./testsuite/testcase" THEN et[1].cases ELSE <<>>

testcase == Found[trI]

SetCase(tc) == Some([et[1] EXCEPT !.cases[trI] = tc])

\* lines 28-31
TrUsage ==
  /\ trPc = "start"
  /\ Len(trArgv) + 1 # 4
  /\ trStdout' = Append(trStdout, "Usage")
  /\ trExit' = "exit 1"
  /\ trPc' = "done"
  /\ UNCHANGED <<trArgv, trInput, trWritable, trOutput, trOutputOld, et, trI, trMatch, notTrVars>>

Skip(said) ==
  /\ trStdout' = trStdout \o said
  /\ trExit' = "returned"
  /\ trPc' = "done"
  /\ UNCHANGED <<trArgv, trInput, trWritable, trOutput, trOutputOld, et, trI, trMatch, notTrVars>>

\* lines 37-42
TrSkipMissing ==
  /\ trPc = "start"
  /\ Len(trArgv) + 1 = 4
  /\ trInput.kind = "missing"
  /\ Skip(<<"Processing", "does not exist, skipping">>)

\* TrSkipEmpty in a script that opens the output file before it looks at the input
TrSkipEmptyTruncates ==
  /\ trPc = "start"
  /\ Len(trArgv) + 1 = 4
  /\ trInput.kind = "empty"
  /\ trStdout' = trStdout \o <<"Processing", "is empty, skipping">>
  /\ trOutput' = IF trWritable THEN Some([path |-> "", cases |-> <<>>]) ELSE trOutput
  /\ trExit' = "returned"
  /\ trPc' = "done"
  /\ UNCHANGED <<trArgv, trInput, trWritable, trOutputOld, et, trI, trMatch, notTrVars>>

\* lines 37, 45-47
TrSkipEmpty ==
  /\ trPc = "start"
  /\ Len(trArgv) + 1 = 4
  /\ trInput.kind = "empty"
  /\ Skip(<<"Processing", "is empty, skipping">>)

\* lines 37, 50-55
TrSkipMalformed ==
  /\ trPc = "start"
  /\ Len(trArgv) + 1 = 4
  /\ trInput.kind = "malformed"
  /\ Skip(<<"Processing", "Error parsing XML file", "Skipping malformed XML file">>)

\* lines 37, 50-51, 56-59
TrSkipUnreadable ==
  /\ trPc = "start"
  /\ Len(trArgv) + 1 = 4
  /\ trInput.kind = "unreadable"
  /\ Skip(<<"Processing", "Unexpected error parsing", "Skipping file">>)

\* lines 37, 49-51
TrParse ==
  /\ trPc = "start"
  /\ Len(trArgv) + 1 = 4
  /\ trInput.kind = "xml"
  /\ et' = Some(trInput.doc)
  /\ trStdout' = Append(trStdout, "Processing")
  /\ trPc' = "loop"
  /\ UNCHANGED <<trArgv, trInput, trWritable, trOutput, trOutputOld, trI, trMatch, trExit,
                 notTrVars>>

\* lines 60-63
TrNoFailure ==
  /\ trPc = "loop"
  /\ trI <= Len(Found)
  /\ testcase.failure = None
  /\ trI' = trI + 1
  /\ UNCHANGED <<trArgv, trInput, trWritable, trOutput, trOutputOld, et, trMatch, trStdout,
                 trPc, trExit, notTrVars>>

\* lines 60-61, 67: pattern.search(None) raises TypeError, which nothing catches
TrSearchNoText ==
  /\ trPc = "loop"
  /\ trI <= Len(Found)
  /\ testcase.failure # None
  /\ testcase.failure[1].text = None
  /\ trExit' = "uncaught TypeError"
  /\ trPc' = "done"
  /\ UNCHANGED <<trArgv, trInput, trWritable, trOutput, trOutputOld, et, trI, trMatch,
                 trStdout, notTrVars>>

\* the loop is at a testcase whose failure has text
AtSearch ==
  /\ trPc = "loop"
  /\ trI <= Len(Found)
  /\ testcase.failure # None
  /\ testcase.failure[1].text # None

\* lines 60-61, 67
TrSearch ==
  /\ AtSearch
  /\ trMatch' = Search(pattern, testcase.failure[1].text[1])
  /\ trPc' = "matched"
  /\ UNCHANGED <<trArgv, trInput, trWritable, trOutput, trOutputOld, et, trI, trStdout,
                 trExit, notTrVars>>

\* lines 68-69
TrNoMatch ==
  /\ trPc = "matched"
  /\ trMatch = None
  /\ trI' = trI + 1
  /\ trPc' = "loop"
  /\ UNCHANGED <<trArgv, trInput, trWritable, trOutput, trOutputOld, et, trMatch, trStdout,
                 trExit, notTrVars>>

\* lines 71-78
TrOutsideRoot ==
  /\ trPc = "matched"
  /\ trMatch # None
  /\ ~StartsWith(trMatch[1]["1"][1], repository_root)
  /\ trStdout' = Append(trStdout, "Could not find repository name in file path")
  /\ trI' = trI + 1
  /\ trPc' = "loop"
  /\ UNCHANGED <<trArgv, trInput, trWritable, trOutput, trOutputOld, et, trMatch, trExit,
                 notTrVars>>

\* lines 71-76, 80-85
TrRewrite ==
  /\ trPc = "matched"
  /\ trMatch # None
  /\ StartsWith(trMatch[1]["1"][1], repository_root)
  /\ LET file == SliceFrom(trMatch[1]["1"][1], Len(repository_root) + 1)
         line == trMatch[1]["2"][1]
     IN  et' = SetCase([file    |-> Some(file),
                        line    |-> Some(line),
                        failure |-> Some([text |-> testcase.failure[1].text,
                                          file |-> Some(file),
                                          line |-> Some(line)])])
  /\ trI' = trI + 1
  /\ trPc' = "loop"
  /\ UNCHANGED <<trArgv, trInput, trWritable, trOutput, trOutputOld, trMatch, trStdout,
                 trExit, notTrVars>>

\* line 60: no testcase is left
TrLoopEnd ==
  /\ trPc = "loop"
  /\ trI > Len(Found)
  /\ trPc' = "write"
  /\ UNCHANGED <<trArgv, trInput, trWritable, trOutput, trOutputOld, et, trI, trMatch,
                 trStdout, trExit, notTrVars>>

\* lines 88-90
TrWrite ==
  /\ trPc = "write"
  /\ trWritable
  /\ trStdout' = Append(trStdout, "Writing")
  /\ trOutput' = Some(et[1])
  /\ trExit' = "returned"
  /\ trPc' = "done"
  /\ UNCHANGED <<trArgv, trInput, trWritable, trOutputOld, et, trI, trMatch, notTrVars>>

\* lines 88-94: the output file cannot be opened
TrWriteError ==
  /\ trPc = "write"
  /\ ~trWritable
  /\ trStdout' = trStdout \o <<"Writing", "Error writing output file", "Skipping file">>
  /\ trExit' = "returned"
  /\ trPc' = "done"
  /\ UNCHANGED <<trArgv, trInput, trWritable, trOutput, trOutputOld, et, trI, trMatch,
                 notTrVars>>

NextTransform ==
  \/ TrUsage
  \/ TrSkipMissing
  \/ TrSkipEmpty
  \/ TrSkipMalformed
  \/ TrSkipUnreadable
  \/ TrParse
  \/ TrNoFailure
  \/ TrSearchNoText
  \/ TrSearch
  \/ TrNoMatch
  \/ TrOutsideRoot
  \/ TrRewrite
  \/ TrLoopEnd
  \/ TrWrite
  \/ TrWriteError

SpecTransform == InitTransform /\ [][NextTransform]_vars

Said(message) == \E k \in 1..Len(trStdout) : trStdout[k] = message

\* C6: when the input file does not exist, is empty or does not parse as
\* XML, main() says that it skips the file and returns normally, and the
\* output file is as it was (not created, not modified); the output file
\* differs from what it was only once the input has been parsed.
C6_SkipLeavesOutputUntouched ==
  /\ (trOutput # trOutputOld \/ Said("Writing")) => (trInput.kind = "xml" /\ et # None)
  /\ (trPc = "done" /\ Len(trArgv) = 3 /\ trInput.kind \in {"missing", "empty", "malformed"}) =>
       /\ trExit = "returned"
       /\ trOutput = trOutputOld
       /\ \/ trInput.kind = "missing" /\ Said("does not exist, skipping")
          \/ trInput.kind = "empty" /\ Said("is empty, skipping")
          \/ trInput.kind = "malformed" /\ Said("Skipping malformed XML file")

\* C6: a malformed input has been skipped with an earlier report in place.
C6_Witness ==
  /\ trPc = "done"
  /\ trInput.kind = "malformed"
  /\ trWritable
  /\ trOutput = Some(OldReport)

\* C7: every testcase under ./testsuite/testcase that the loop has passed,
\* with a failure whose text holds "\tError Trace:\t<file>:<line>" and whose
\* <file> starts with the repository root, has on itself and on its failure a
\* "file" attribute f with <repository root> + "/" + f = <file> and the "line"
\* attribute <line>; every other testcase is as it was parsed.
C7_FileIsRelativeToRepositoryRoot ==
  (et # None /\ et[1].path = "./testsuite/testcase") =>
    \A k \in 1..Len(et[1].cases) :
      k < trI =>
        LET before == trInput.doc.cases[k]
            after  == et[1].cases[k]
            m      == IF before.failure # None /\ before.failure[1].text # None
                      THEN Search(pattern, before.failure[1].text[1])
                      ELSE None
        IN  IF m # None /\ HasPrefix(m[1]["1"][1], repository_root)
            THEN /\ after.file # None
                 /\ repository_root \o <<"/">> \o after.file[1] = m[1]["1"][1]
                 /\ after.line = m[1]["2"]
                 /\ after.failure[1].file = after.file
                 /\ after.failure[1].line = after.line
            ELSE after = before

\* C10: with its three arguments, whatever the input file is, main() returns
\* normally, having skipped the file or tried to write the output file.
C10_NoUncaughtError ==
  (trPc = "done" /\ Len(trArgv) = 3) =>
    /\ trExit = "returned"
    /\ \/ Said("does not exist, skipping")
       \/ Said("is empty, skipping")
       \/ Said("Skipping malformed XML file")
       \/ Said("Skipping file")
       \/ Said("Writing")

(***************************************************************************)
(* publish-test-terraform-recipes.py                                       *)
(***************************************************************************)
RecipeNames == {"aws", "azure", "kubernetes"}

RecipeRoots == [RecipeNames -> {"dir", "file", "absent"}]

\* What the config map holds when an earlier run has left one.
OldConfigMap == {<<"--from-file=", "earlier", ".zip=", <<"tmp_dir", "earlier", ".zip">>>>}

PublishArgvs == {<<>>, <<"recipe root", "namespace", "config map name">>}

\* [f.path for f in os.scandir(recipe_root) if f.is_dir()], in any order
Subdirectories == {n \in RecipeNames : pubRoot[n] = "dir"}

ScanOrders ==
  {order \in [1..Cardinality(Subdirectories) -> Subdirectories] :
     \A i, j \in DOMAIN order : i # j => order[i] # order[j]}

\* shutil.make_archive(os.path.join(tmp_dir, name), 'zip', recipe_dir)
Archive(name) == <<"tmp_dir", name, ".zip">>

\* "--from-file=" + recipe_name + ".zip=" + zip_file
FromFile(entry) == <<"--from-file=", entry[1], ".zip=", entry[2]>>

\* log(message)
Log(messages) == output' = IF step_summary THEN output \o messages ELSE output

InitPublish ==
  /\ pubArgv \in PublishArgvs
  /\ step_summary \in BOOLEAN
  /\ output = <<>>
  /\ pubRoot \in RecipeRoots
  /\ recipe_dirs = <<>>
  /\ config_entries = <<>>
  /\ tmp_dir = {}
  /\ pubI = 1
  /\ pubCommands = <<>>
  /\ configMapOld \in {None, Some(OldConfigMap)}
  /\ configMap = configMapOld
  /\ pubPc = "start"
  /\ pubExit = "running"
  /\ IdleRelease
  /\ IdleSemver
  /\ IdleTransform

\* lines 28-30
PubUsage ==
  /\ pubPc = "start"
  /\ Len(pubArgv) + 1 # 4
  /\ pubExit' = "exit 1"
  /\ pubPc' = "done"
  /\ UNCHANGED <<pubArgv, step_summary, output, pubRoot, recipe_dirs, config_entries, tmp_dir,
                 pubI, pubCommands, configMap, configMapOld, notPubVars>>

\* lines 31-50: the recipe root has no subdirectory
PubNoRecipes ==
  /\ pubPc = "start"
  /\ Len(pubArgv) + 1 = 4
  /\ Subdirectories = {}
  /\ Log(<<"Publishing recipes">>)
  /\ pubExit' = "exit 1"
  /\ pubPc' = "done"
  /\ UNCHANGED <<pubArgv, step_summary, pubRoot, recipe_dirs, config_entries, tmp_dir, pubI,
                 pubCommands, configMap, configMapOld, notPubVars>>

\* lines 31-48, 54, 58
PubScan ==
  /\ pubPc = "start"
  /\ Len(pubArgv) + 1 = 4
  /\ Subdirectories # {}
  /\ Log(<<"Publishing recipes">>)
  /\ recipe_dirs' \in ScanOrders
  /\ config_entries' = <<>>
  /\ pubPc' = "archive"
  /\ UNCHANGED <<pubArgv, step_summary, pubRoot, tmp_dir, pubI, pubCommands, configMap,
                 configMapOld, pubExit, notPubVars>>

\* lines 59-67
PubArchive ==
  /\ pubPc = "archive"
  /\ pubI <= Len(recipe_dirs)
  /\ Log(<<"Processing recipe", "Created zip file">>)
  /\ tmp_dir' = tmp_dir \cup {Archive(recipe_dirs[pubI])}
  /\ config_entries' = Append(config_entries, <<recipe_dirs[pubI], Archive(recipe_dirs[pubI])>>)
  /\ pubI' = pubI + 1
  /\ UNCHANGED <<pubArgv, step_summary, pubRoot, recipe_dirs, pubCommands, configMap,
                 configMapOld, pubPc, pubExit, notPubVars>>

\* lines 59-63: make_archive raises; the temporary directory is removed
PubArchiveError ==
  /\ pubPc = "archive"
  /\ pubI <= Len(recipe_dirs)
  /\ Log(<<"Processing recipe">>)
  /\ tmp_dir' = {}
  /\ pubExit' = "uncaught OSError"
  /\ pubPc' = "done"
  /\ UNCHANGED <<pubArgv, step_summary, pubRoot, recipe_dirs, config_entries, pubI,
                 pubCommands, configMap, configMapOld, notPubVars>>

DeleteCommand(rc) == [verb |-> "delete", args |-> <<"--ignore-not-found=true">>, rc |-> rc]

\* lines 70-72: kubectl delete returns 0
PubDelete ==
  /\ pubPc = "archive"
  /\ pubI > Len(recipe_dirs)
  /\ pubCommands' = Append(pubCommands, DeleteCommand(0))
  /\ configMap' = None
  /\ pubPc' = "create"
  /\ UNCHANGED <<pubArgv, step_summary, output, pubRoot, recipe_dirs, config_entries, tmp_dir,
                 pubI, configMapOld, pubExit, notPubVars>>

\* PubDeleteError without the call of check_returncode
PubDeleteUnchecked ==
  /\ pubPc = "archive"
  /\ pubI > Len(recipe_dirs)
  /\ pubCommands' = Append(pubCommands, DeleteCommand(1))
  /\ pubPc' = "create"
  /\ UNCHANGED <<pubArgv, step_summary, output, pubRoot, recipe_dirs, config_entries, tmp_dir,
                 pubI, configMap, configMapOld, pubExit, notPubVars>>

\* lines 70-72: kubectl delete returns another status; check_returncode raises
PubDeleteError ==
  /\ pubPc = "archive"
  /\ pubI > Len(recipe_dirs)
  /\ pubCommands' = Append(pubCommands, DeleteCommand(1))
  /\ tmp_dir' = {}
  /\ pubExit' = "uncaught CalledProcessError"
  /\ pubPc' = "done"
  /\ UNCHANGED <<pubArgv, step_summary, output, pubRoot, recipe_dirs, config_entries, pubI,
                 configMap, configMapOld, notPubVars>>

\* lines 75-77
CreateCommand(rc) ==
  [verb |-> "create", args |-> [k \in 1..Len(config_entries) |-> FromFile(config_entries[k])],
   rc |-> rc]

\* lines 75-81: kubectl create returns 0
PubCreate ==
  /\ pubPc = "create"
  /\ pubCommands' = Append(pubCommands, CreateCommand(0))
  /\ configMap' = Some({FromFile(config_entries[k]) : k \in 1..Len(config_entries)})
  /\ Log(<<"Created configmap">>)
  /\ tmp_dir' = {}
  /\ pubExit' = "exit 0"
  /\ pubPc' = "done"
  /\ UNCHANGED <<pubArgv, step_summary, pubRoot, recipe_dirs, config_entries, pubI,
                 configMapOld, notPubVars>>

\* lines 75-80: kubectl create returns another status; check_returncode raises
PubCreateError ==
  /\ pubPc = "create"
  /\ pubCommands' = Append(pubCommands, CreateCommand(1))
  /\ tmp_dir' = {}
  /\ pubExit' = "uncaught CalledProcessError"
  /\ pubPc' = "done"
  /\ UNCHANGED <<pubArgv, step_summary, output, pubRoot, recipe_dirs, config_entries, pubI,
                 configMap, configMapOld, notPubVars>>

NextPublish ==
  \/ PubUsage
  \/ PubNoRecipes
  \/ PubScan
  \/ PubArchive
  \/ PubArchiveError
  \/ PubDelete
  \/ PubDeleteError
  \/ PubCreate
  \/ PubCreateError

SpecPublish == InitPublish /\ [][NextPublish]_vars

\* C8: a kubectl command has run only when every immediate subdirectory of
\* the recipe root has been archived; the commands run are the delete and
\* then, only when the delete returned 0, the create, which carries one
\* --from-file=<basename>.zip=<archive> entry for each immediate subdirectory
\* and no other; a recipe root without a subdirectory ends the script with
\* status 1, no command run and the config map as it was.
C8_ArchiveThenDeleteThenCreate ==
  LET entries == {<<"--from-file=", n, ".zip=", <<"tmp_dir", n, ".zip">>>> : n \in Subdirectories}
  IN  /\ pubCommands # <<>> =>
           /\ pubI = Cardinality(Subdirectories) + 1
           /\ {config_entries[k][1] : k \in 1..Len(config_entries)} = Subdirectories
           /\ pubCommands[1].verb = "delete"
      /\ Len(pubCommands) <= 2
      /\ Len(pubCommands) = 2 =>
           /\ pubCommands[1].rc = 0
           /\ pubCommands[2].verb = "create"
           /\ Len(pubCommands[2].args) = Cardinality(Subdirectories)
           /\ {pubCommands[2].args[k] : k \in 1..Len(pubCommands[2].args)} = entries
      /\ pubCommands = <<>> => configMap = configMapOld
      /\ (pubPc = "done" /\ Len(pubArgv) = 3 /\ Subdirectories = {}) =>
           (pubExit = "exit 1" /\ pubCommands = <<>>)

\* C8: two recipes have been archived and the config map replaced by theirs.
C8_Witness ==
  /\ pubPc = "done"
  /\ pubExit = "exit 0"
  /\ Cardinality(Subdirectories) = 2
  /\ configMapOld # None
  /\ configMap = Some({<<"--from-file=", n, ".zip=", <<"tmp_dir", n, ".zip">>>> : n \in Subdirectories})

====
